---------------------------- MODULE Spec2Model ----------------------------
(***************************************************************************)
(* A model of .github/scripts/lang_stats.py: the paginated fetch of the    *)
(* per-repository language byte counts, their aggregation, the table and   *)
(* image renderers and the README patcher.                                 *)
(*                                                                         *)
(* Text is a sequence of pieces.  A piece is one of the two marker         *)
(* literals, a newline, a space, a backslash, the letter x, or (in the     *)
(* table that main renders) one rendered line.  Both marker literals start *)
(* with "<", end with ">" and hold neither character in between, and the   *)
(* replacement puts a newline between the markers and the body, so no      *)
(* marker can straddle two pieces: taking a marker as one piece loses no   *)
(* match of the pattern.                                                   *)
(***************************************************************************)
EXTENDS Integers, Sequences, FiniteSets, TLC

VARIABLES
    environ,      \* os.environ: GITHUB_TOKEN, GITHUB_REPOSITORY_OWNER, GITHUB_ACTOR
    pc,           \* position of main (or of the caller of update_readme)
    owner,        \* main's owner
    totals,       \* main's totals: the dict as its items in insertion order
    cursor,       \* main's cursor
    repos,        \* pageInfo of the response being processed, and its number of nodes
    idx,          \* number of nodes of the current response already iterated
    repo,         \* the node being iterated: name, isArchived
    n_edges,      \* number of edges of the node whose edges are iterated
    edge_idx,     \* number of those edges already iterated
    requests,     \* the HTTP requests issued so far: their variables
    items,        \* main's items
    total_bytes,  \* main's total_bytes
    light,        \* assets/languages-light.svg
    dark,         \* assets/languages-dark.svg
    readme,       \* README.md
    new_block,    \* the body handed to update_readme
    hist,         \* history: README.md at the start and after each call of update_readme
    expected,     \* history: bytes per language of the edges the policy includes
    served        \* history: the pageInfo of the responses received so far

vars == <<environ, pc, owner, totals, cursor, repos, idx, repo, n_edges, edge_idx, requests, items,
          total_bytes, light, dark, readme, new_block, hist, expected, served>>

None == "None"

---------------------------------------------------------------------------
(* Text pieces *)

Piece(c) == [ch |-> c]
START == Piece("<!-- LANGUAGES:START -->")
END == Piece("<!-- LANGUAGES:END -->")
NL == Piece("\n")
SP == Piece(" ")
BS == Piece("\\")
LetterX == Piece("x")

IsSpace(c) == c \in {NL, SP}
IsAsciiLetter(c) == c = LetterX

\* str.rstrip(): the text without its trailing whitespace
RECURSIVE rstrip(_)
rstrip(t) ==
    IF t = <<>> THEN <<>>
    ELSE IF IsSpace(t[Len(t)]) THEN rstrip(SubSeq(t, 1, Len(t) - 1))
    ELSE t

\* the least index >= from at which piece c stands in t, 0 when there is none
RECURSIVE IndexFrom(_, _, _)
IndexFrom(t, c, from) ==
    IF from > Len(t) THEN 0
    ELSE IF t[from] = c THEN from
    ELSE IndexFrom(t, c, from + 1)

\* the leftmost match of START.*?END (DOTALL) at or after pos: <<s, e>>, or
\* <<0, 0>>.  The lazy .*? ends the match at the first END after the START; a
\* START with no END after it has none after any later START either.
search_from(t, pos) ==
    LET s == IndexFrom(t, START, pos)
        e == IF s = 0 THEN 0 ELSE IndexFrom(t, END, s + 1)
    IN  IF s = 0 \/ e = 0 THEN <<0, 0>> ELSE <<s, e>>

re_search(t) == search_from(t, 1)[1] # 0

\* The replacement is a template: re.sub expands its backslash escapes.
\* "\\" gives one backslash, a backslash before an ASCII letter that is no
\* known escape is an error (bad escape), so is a backslash ending the
\* template, and a backslash before anything else stays as it is.
RECURSIVE template_ok(_)
template_ok(r) ==
    IF r = <<>> THEN TRUE
    ELSE IF r[1] # BS THEN template_ok(Tail(r))
    ELSE IF Len(r) = 1 THEN FALSE
    ELSE IF IsAsciiLetter(r[2]) THEN FALSE
    ELSE template_ok(SubSeq(r, 3, Len(r)))

RECURSIVE expand_template(_)
expand_template(r) ==
    IF r = <<>> THEN <<>>
    ELSE IF r[1] # BS \/ Len(r) = 1 THEN <<r[1]>> \o expand_template(Tail(r))
    ELSE IF r[2] = BS THEN <<BS>> \o expand_template(SubSeq(r, 3, Len(r)))
    ELSE <<r[1], r[2]>> \o expand_template(SubSeq(r, 3, Len(r)))

\* re.sub(pattern, replacement, text) with count = 0: every non-overlapping
\* match, left to right, is replaced by the expanded template `by`
RECURSIVE sub_from(_, _, _)
sub_from(t, by, pos) ==
    LET m == search_from(t, pos)
    IN  IF m[1] = 0 THEN SubSeq(t, pos, Len(t))
        ELSE SubSeq(t, pos, m[1] - 1) \o by \o sub_from(t, by, m[2] + 1)

re_sub(t, by) == sub_from(t, by, 1)

\* README.md: absent, or a file holding text
Absent == [exists |-> FALSE, text |-> <<>>]
File(t) == [exists |-> TRUE, text |-> t]

read_text(f) == IF f.exists THEN f.text ELSE <<>>

replacement(body) == <<START, NL>> \o body \o <<NL, END>>

\* update_readme raises re.error out of re.sub, before README.md is written
update_readme_raises(f, body) ==
    re_search(read_text(f)) /\ ~template_ok(replacement(body))

\* README.md after update_readme(readme, body) returned
update_readme(f, body) ==
    LET text == read_text(f)
    IN  IF re_search(text)
        THEN File(re_sub(text, expand_template(replacement(body))))
        ELSE File(rstrip(text) \o <<NL, NL>> \o replacement(body) \o <<NL>>)

---------------------------------------------------------------------------
(* Configuration *)

EXCLUDE_REPOS == {}
EXCLUDE_LANGS == {"Jupyter Notebook"}
MAX_ROWS == 10
BAR_WIDTH == 18

---------------------------------------------------------------------------
(* Aggregation *)

Falsy(v) == v \in {None, ""}

\* totals[lang] += size on the defaultdict(int): a new key goes to the end
add(t, lang, size) ==
    IF \E k \in 1..Len(t) : t[k].name = lang
    THEN [k \in 1..Len(t) |->
            IF t[k].name = lang THEN [t[k] EXCEPT !.size = @ + size] ELSE t[k]]
    ELSE Append(t, [name |-> lang, size |-> size])

\* the body of the loop over a repository's edges, for one edge
add_edge(t, edge) ==
    IF edge.lang \in EXCLUDE_LANGS THEN t ELSE add(t, edge.lang, edge.size)

\* skipped, had the test of isArchived been left out
skipped_archived_kept(r) ==
    \/ Falsy(r.name)
    \/ r.name \in EXCLUDE_REPOS

\* the repositories the loop passes over with `continue`
skipped(r) ==
    \/ Falsy(r.name)
    \/ r.isArchived
    \/ r.name \in EXCLUDE_REPOS

---------------------------------------------------------------------------
(* Rendering *)

\* sorted(totals.items(), key=size, reverse=True): stable, so equal sizes
\* keep the order in which the dict holds them
RECURSIVE sorted_desc(_)
sorted_desc(t) ==
    IF t = <<>> THEN <<>>
    ELSE LET front == sorted_desc(SubSeq(t, 1, Len(t) - 1))
             x == t[Len(t)]
             keep == Cardinality({k \in 1..Len(front) : front[k].size >= x.size})
         IN  SubSeq(front, 1, keep) \o <<x>> \o SubSeq(front, keep + 1, Len(front))

RECURSIVE sum_sizes(_)
sum_sizes(t) == IF t = <<>> THEN 0 ELSE t[1].size + sum_sizes(Tail(t))

\* items[:n], had the slice been left out
head_untruncated(t, n) == t

\* items[:n]
head(t, n) == SubSeq(t, 1, IF n < Len(t) THEN n ELSE Len(t))

\* the share size / total as the fraction num / den, 0.0 when total is 0
pct(size, total) ==
    IF total # 0 THEN [num |-> size, den |-> total] ELSE [num |-> 0, den |-> 1]

\* round(), had int() alone been applied: the fraction is cut off
round_truncating(n, d) == n \div d

\* round(): to the nearest integer, a tie to the even one (n >= 0, d > 0)
round(n, d) ==
    LET q == n \div d
        r == n % d
    IN  IF 2 * r < d THEN q
        ELSE IF 2 * r > d THEN q + 1
        ELSE IF q % 2 = 0 THEN q ELSE q + 1

\* bar(p): `filled` full cells, then width - filled blanks (none when negative)
bar(p) ==
    LET filled == round(p.num * BAR_WIDTH, p.den)
    IN  [filled |-> filled,
         blank |-> IF BAR_WIDTH - filled > 0 THEN BAR_WIDTH - filled ELSE 0]

\* "\n".join(lines), each line a sequence of pieces
RECURSIVE join(_)
join(lines) ==
    IF lines = <<>> THEN <<>>
    ELSE IF Len(lines) = 1 THEN lines[1]
    ELSE lines[1] \o <<NL>> \o join(Tail(lines))

\* one table row: the name, the share that pct_str formats, the bar
table_row(item, total) ==
    LET p == pct(item.size, total)
    IN  [name |-> item.name, share |-> p, bar |-> bar(p)]

table_rows(its, total) ==
    [k \in 1..Len(head(its, MAX_ROWS)) |-> table_row(its[k], total)]

make_table(its, total) ==
    join(<< <<Piece("### Language usage")>>,
            <<>>,
            <<Piece("| Language | Share | Usage |")>>,
            <<Piece("|---|---:|:---|")>> >>
         \o [k \in 1..Len(table_rows(its, total)) |-> <<table_rows(its, total)[k]>>])

\* html.escape: no language name of the model holds & < > " or '
esc(s) == s

HEADER_H == 46
ROW_H == 26

\* the image file make_svg writes: its height, its palette, its data rows
make_svg(its, total, isDark) ==
    LET rows == IF MAX_ROWS < Len(its) THEN MAX_ROWS ELSE Len(its)
    IN  [height |-> HEADER_H + rows * ROW_H + 18,
         dark |-> isDark,
         rows |-> [k \in 1..Len(head(its, rows)) |->
                     [name |-> esc(its[k].name),
                      share |-> pct(its[k].size, total),
                      y |-> HEADER_H + (k - 1) * ROW_H]]]

\* an image file as an earlier run left it
OldSvg == [old |-> TRUE]

---------------------------------------------------------------------------
(* Bounds and inputs *)

MaxDocLen == 4     \* pieces of README.md before the first patch
MaxBodyLen == 2    \* pieces of a body handed to update_readme
MaxPatches == 2    \* calls of update_readme on one README.md
MaxPages == 2      \* pages the server serves
MaxNodes == 1      \* repository nodes of a page
MaxEdges == 1      \* language edges of a repository
MaxSize == 1       \* byte size of an edge
MaxLangs == 11     \* languages of a ranking drawn for the renderers
MaxBytes == 100    \* total_bytes of a three-language ranking drawn for the renderers

RECURSIVE SeqsUpTo(_, _)
SeqsUpTo(S, n) ==
    IF n = 0 THEN {<<>>}
    ELSE LET shorter == SeqsUpTo(S, n - 1)
         IN  shorter \cup {Append(s, x) : s \in {q \in shorter : Len(q) = n - 1}, x \in S}

DocPieces == {START, END, NL, SP, LetterX}
BodyPieces == {START, END, NL, BS, LetterX}

Environs ==
    {[GITHUB_TOKEN |-> t, GITHUB_REPOSITORY_OWNER |-> o, GITHUB_ACTOR |-> a] :
        t \in {None, "", "token"}, o \in {None, "owner"}, a \in {None, "actor"}}

Langs == {"Python", "C", "Jupyter Notebook"}
\* The cursors: null, and the endCursor of the k-th page, which names the place
\* in the listing where that page ends
NullCursor == <<>>
EndCursor(k) == <<"cursor", k>>
Edges == [lang : Langs, size : 0..MaxSize]
RepoNames == {None, "dotfiles"}

\* README.md as an earlier run, or its author, may have left it
Readmes == {File(<<LetterX, SP>>), File(<<LetterX, START, LetterX, END, NL>>)}

---------------------------------------------------------------------------
(* main *)

NoPage == [nodes |-> 0, hasNextPage |-> FALSE, endCursor |-> NullCursor]
NoRepo == [name |-> None, isArchived |-> FALSE]

Init ==
    /\ environ \in Environs
    /\ pc = "main"
    /\ owner = None
    /\ totals = <<>>
    /\ cursor = NullCursor
    /\ repos = NoPage
    /\ idx = 0
    /\ repo = NoRepo
    /\ n_edges = 0
    /\ edge_idx = 0
    /\ requests = <<>>
    /\ items = <<>>
    /\ total_bytes = 0
    /\ light = OldSvg
    /\ dark = OldSvg
    /\ readme \in Readmes
    /\ new_block = <<>>
    /\ hist = <<readme>>
    /\ expected = [l \in Langs |-> 0]
    /\ served = <<>>

\* login, had the fallback to GITHUB_ACTOR been left out
login_without_fallback(env) == env.GITHUB_REPOSITORY_OWNER

\* os.environ.get("GITHUB_REPOSITORY_OWNER") or os.environ.get("GITHUB_ACTOR")
login(env) ==
    IF ~Falsy(env.GITHUB_REPOSITORY_OWNER) THEN env.GITHUB_REPOSITORY_OWNER
    ELSE env.GITHUB_ACTOR

MissingToken ==
    /\ pc = "main"
    /\ Falsy(environ.GITHUB_TOKEN)
    /\ pc' = "exit"
    /\ UNCHANGED <<environ, owner, totals, cursor, repos, idx, repo, n_edges, edge_idx, requests, items,
                   total_bytes, light, dark, readme, new_block, hist, expected, served>>

MissingOwner ==
    /\ pc = "main"
    /\ ~Falsy(environ.GITHUB_TOKEN)
    /\ Falsy(login(environ))
    /\ owner' = login(environ)
    /\ pc' = "exit"
    /\ UNCHANGED <<environ, totals, cursor, repos, idx, repo, n_edges, edge_idx, requests, items,
                   total_bytes, light, dark, readme, new_block, hist, expected, served>>

Configured ==
    /\ pc = "main"
    /\ ~Falsy(environ.GITHUB_TOKEN)
    /\ ~Falsy(login(environ))
    /\ owner' = login(environ)
    /\ totals' = <<>>
    /\ cursor' = NullCursor
    /\ pc' = "request"
    /\ UNCHANGED <<environ, repos, idx, repo, n_edges, edge_idx, requests, items,
                   total_bytes, light, dark, readme, new_block, hist, expected, served>>

\* the variables of the request main issues next
variables == [login |-> owner, cursor |-> cursor]

\* RequestFails, had main caught the error and left the loop with what it has
RequestFailsCaught ==
    /\ pc = "request"
    /\ requests' = Append(requests, variables)
    /\ pc' = "sort"
    /\ UNCHANGED <<environ, owner, totals, cursor, repos, idx, repo, n_edges, edge_idx,
                   items, total_bytes, light, dark, readme, new_block, hist, expected,
                   served>>

\* graphql raises: urlopen fails, or the payload carries "errors"
RequestFails ==
    /\ pc = "request"
    /\ requests' = Append(requests, variables)
    /\ pc' = "raised"
    /\ UNCHANGED <<environ, owner, totals, cursor, repos, idx, repo, n_edges, edge_idx, items,
                   total_bytes, light, dark, readme, new_block, hist, expected, served>>

\* graphql returns a page; the server serves at most MaxPages pages
RequestReturns ==
    /\ pc = "request"
    /\ requests' = Append(requests, variables)
    /\ \E n \in 0..MaxNodes, more \in BOOLEAN :
          /\ (Len(requests) + 1 = MaxPages) => ~more
          /\ repos' = [nodes |-> n, hasNextPage |-> more,
                       endCursor |-> EndCursor(Len(served) + 1)]
          /\ served' = Append(served, [hasNextPage |-> more,
                                       endCursor |-> EndCursor(Len(served) + 1)])
    /\ idx' = 0
    /\ pc' = "nodes"
    /\ UNCHANGED <<environ, owner, totals, cursor, repo, n_edges, edge_idx, items,
                   total_bytes, light, dark, readme, new_block, hist, expected>>

\* the bytes the policy counts for language l, for one edge of repository r
policy_bytes(r, edge, l) ==
    IF /\ r.name \notin {None, ""}
       /\ ~r.isArchived
       /\ r.name \notin EXCLUDE_REPOS
       /\ edge.lang \notin EXCLUDE_LANGS
       /\ edge.lang = l
    THEN edge.size
    ELSE 0

\* One turn of the loop over repos["nodes"]: the node is drawn when the loop
\* reaches it.  A repository without a name, archived or excluded is passed over,
\* its edges unread.
NodeSkipped ==
    /\ pc = "nodes"
    /\ idx < repos.nodes
    /\ \E name \in RepoNames, archived \in BOOLEAN :
          /\ repo' = [name |-> name, isArchived |-> archived]
          /\ skipped(repo')
    /\ idx' = idx + 1
    /\ UNCHANGED <<environ, pc, owner, totals, cursor, repos, n_edges, edge_idx, requests, items,
                   total_bytes, light, dark, readme, new_block, hist, expected, served>>

NodeEntered ==
    /\ pc = "nodes"
    /\ idx < repos.nodes
    /\ \E name \in RepoNames, archived \in BOOLEAN :
          /\ repo' = [name |-> name, isArchived |-> archived]
          /\ ~skipped(repo')
    /\ n_edges' \in 0..MaxEdges
    /\ idx' = idx + 1
    /\ edge_idx' = 0
    /\ pc' = "edges"
    /\ UNCHANGED <<environ, owner, totals, cursor, repos, requests, items,
                   total_bytes, light, dark, readme, new_block, hist, expected, served>>

\* one turn of the loop over the node's edges: the edge is drawn when the loop
\* reaches it
Edge ==
    /\ pc = "edges"
    /\ edge_idx < n_edges
    /\ \E edge \in Edges :
          /\ totals' = add_edge(totals, edge)
          /\ expected' = [l \in Langs |-> expected[l] + policy_bytes(repo, edge, l)]
    /\ edge_idx' = edge_idx + 1
    /\ UNCHANGED <<environ, pc, owner, cursor, repos, idx, repo, n_edges, requests, items,
                   total_bytes, light, dark, readme, new_block, hist, served>>

EdgesDone ==
    /\ pc = "edges"
    /\ edge_idx = n_edges
    /\ pc' = "nodes"
    /\ UNCHANGED <<environ, owner, totals, cursor, repos, idx, repo, n_edges, edge_idx, requests,
                   items, total_bytes, light, dark, readme, new_block, hist, expected,
                   served>>

\* next_cursor, had the cursor never been advanced
next_cursor_stale(page) == NullCursor

\* the cursor of the next request
next_cursor(page) == page.endCursor

\* the loop over the nodes is over and hasNextPage is false: break
LastPage ==
    /\ pc = "nodes"
    /\ idx = repos.nodes
    /\ ~repos.hasNextPage
    /\ pc' = "sort"
    /\ UNCHANGED <<environ, owner, totals, cursor, repos, idx, repo, n_edges, edge_idx, requests, items,
                   total_bytes, light, dark, readme, new_block, hist, expected, served>>

NextPage ==
    /\ pc = "nodes"
    /\ idx = repos.nodes
    /\ repos.hasNextPage
    /\ cursor' = next_cursor(repos)
    /\ pc' = "request"
    /\ UNCHANGED <<environ, owner, totals, repos, idx, repo, n_edges, edge_idx, requests, items,
                   total_bytes, light, dark, readme, new_block, hist, expected, served>>

Sort ==
    /\ pc = "sort"
    /\ items' = sorted_desc(totals)
    /\ total_bytes' = sum_sizes(sorted_desc(totals))
    /\ pc' = "svg_light"
    /\ UNCHANGED <<environ, owner, totals, cursor, repos, idx, repo, n_edges, edge_idx, requests,
                   light, dark, readme, new_block, hist, expected, served>>

SvgLight ==
    /\ pc = "svg_light"
    /\ light' = make_svg(items, total_bytes, FALSE)
    /\ pc' = "svg_dark"
    /\ UNCHANGED <<environ, owner, totals, cursor, repos, idx, repo, n_edges, edge_idx, requests, items,
                   total_bytes, dark, readme, new_block, hist, expected, served>>

SvgDark ==
    /\ pc = "svg_dark"
    /\ dark' = make_svg(items, total_bytes, TRUE)
    /\ pc' = "readme"
    /\ UNCHANGED <<environ, owner, totals, cursor, repos, idx, repo, n_edges, edge_idx, requests, items,
                   total_bytes, light, readme, new_block, hist, expected, served>>

ReadmeReturns ==
    /\ pc = "readme"
    /\ ~update_readme_raises(readme, make_table(items, total_bytes))
    /\ new_block' = make_table(items, total_bytes)
    /\ readme' = update_readme(readme, make_table(items, total_bytes))
    /\ hist' = Append(hist, readme')
    /\ pc' = "done"
    /\ UNCHANGED <<environ, owner, totals, cursor, repos, idx, repo, n_edges, edge_idx, requests, items,
                   total_bytes, light, dark, expected, served>>

Next ==
    \/ MissingToken
    \/ MissingOwner
    \/ Configured
    \/ RequestFails
    \/ RequestReturns
    \/ NodeSkipped
    \/ NodeEntered
    \/ Edge
    \/ EdgesDone
    \/ LastPage
    \/ NextPage
    \/ Sort
    \/ SvgLight
    \/ SvgDark
    \/ ReadmeReturns

Spec == Init /\ [][Next]_vars

---------------------------------------------------------------------------
(* The renderers, on rankings drawn from bounded sets *)

RankNames == <<"Python", "C", "C++", "Go", "Rust", "Java", "Kotlin", "Swift",
               "Ruby", "Shell", "HTML", "CSS", "TeX">>

\* up to MaxLangs languages, sizes 1 or 2, in the order the dict holds them
RankedTotals ==
    UNION {{[k \in 1..n |-> [name |-> RankNames[k], size |-> f[k]]] :
               f \in [1..n -> {1, 2}]} : n \in 0..MaxLangs}

Min(a, b) == IF a < b THEN a ELSE b

\* languages A, B and C, in the order the dict holds them, with at most
\* MaxBytes bytes in all, A the largest and C the smallest
IsShareTotals(t) ==
    \E a \in 0..MaxBytes :
        \E b \in 0..Min(a, MaxBytes - a) :
            \E c \in 0..Min(b, MaxBytes - a - b) :
                t = <<[name |-> "A", size |-> a], [name |-> "B", size |-> b],
                      [name |-> "C", size |-> c]>>

InitRender ==
    /\ environ = [GITHUB_TOKEN |-> "token", GITHUB_REPOSITORY_OWNER |-> "owner",
                  GITHUB_ACTOR |-> None]
    /\ pc = "sort"
    /\ owner = "owner"
    /\ \/ totals \in RankedTotals
       \/ IsShareTotals(totals)
    /\ cursor = NullCursor
    /\ repos = NoPage
    /\ idx = 0
    /\ repo = NoRepo
    /\ n_edges = 0
    /\ edge_idx = 0
    /\ requests = <<>>
    /\ items = <<>>
    /\ total_bytes = 0
    /\ light = OldSvg
    /\ dark = OldSvg
    /\ readme = Absent
    /\ new_block = <<>>
    /\ hist = <<readme>>
    /\ expected = <<>>
    /\ served = <<>>

NextRender == Sort \/ SvgLight \/ SvgDark \/ ReadmeReturns

SpecRender == InitRender /\ [][NextRender]_vars

---------------------------------------------------------------------------
(* update_readme called again and again with one body *)

InitPatch ==
    /\ environ = [GITHUB_TOKEN |-> "token", GITHUB_REPOSITORY_OWNER |-> "owner",
                  GITHUB_ACTOR |-> None]
    /\ pc = "patch"
    /\ owner = "owner"
    /\ totals = <<>>
    /\ cursor = NullCursor
    /\ repos = NoPage
    /\ idx = 0
    /\ repo = NoRepo
    /\ n_edges = 0
    /\ edge_idx = 0
    /\ requests = <<>>
    /\ items = <<>>
    /\ total_bytes = 0
    /\ light = OldSvg
    /\ dark = OldSvg
    /\ readme \in {Absent} \cup {File(t) : t \in SeqsUpTo(DocPieces, MaxDocLen)}
    /\ new_block \in SeqsUpTo(BodyPieces, MaxBodyLen)
    /\ hist = <<readme>>
    /\ expected = <<>>
    /\ served = <<>>

PatchReturns ==
    /\ pc = "patch"
    /\ Len(hist) <= MaxPatches
    /\ ~update_readme_raises(readme, new_block)
    /\ readme' = update_readme(readme, new_block)
    /\ hist' = Append(hist, readme')
    /\ UNCHANGED <<environ, pc, owner, totals, cursor, repos, idx, repo, n_edges, edge_idx, requests, items,
                   total_bytes, light, dark, new_block, expected, served>>

PatchRaises ==
    /\ pc = "patch"
    /\ Len(hist) <= MaxPatches
    /\ update_readme_raises(readme, new_block)
    /\ hist' = Append(hist, readme)
    /\ UNCHANGED <<environ, pc, owner, totals, cursor, repos, idx, repo, n_edges, edge_idx, requests, items,
                   total_bytes, light, dark, readme, new_block, expected, served>>

NextPatch == PatchReturns \/ PatchRaises

SpecPatch == InitPatch /\ [][NextPatch]_vars

---------------------------------------------------------------------------
(* Properties *)

IsPrefix(p, t) == Len(p) <= Len(t) /\ SubSeq(t, 1, Len(p)) = p
IsSuffix(p, t) == Len(p) <= Len(t) /\ SubSeq(t, Len(t) - Len(p) + 1, Len(t)) = p

\* the size totals holds for a language, 0 when it holds no such key
SizeOf(t, l) ==
    IF \E k \in 1..Len(t) : t[k].name = l
    THEN (CHOOSE x \in {t[k] : k \in 1..Len(t)} : x.name = l).size
    ELSE 0

IsDataRow(piece) == "name" \in DOMAIN piece
DataRows(block) == SelectSeq(block, IsDataRow)

Abs(n) == IF n < 0 THEN 0 - n ELSE n

\* README.md before the latest call of update_readme
Before == read_text(hist[Len(hist) - 1])

\* C1: a second update_readme with the same body leaves README.md as the
\* first one left it, whatever the document and the body.
C1_PatchIdempotent == Len(hist) >= 3 => hist[3] = hist[2]

\* C2: update_readme alters nothing outside the marked region: with the
\* markers present, the text before the start marker and the text after the
\* end marker stay as they were; with the markers absent, the whole document
\* stays and the markers and the body are appended after it.
C2_OutsideUntouched ==
    Len(hist) >= 2 =>
        LET m == search_from(Before, 1)
        IN  IF m[1] # 0
            THEN /\ IsPrefix(SubSeq(Before, 1, m[1] - 1), readme.text)
                 /\ IsSuffix(SubSeq(Before, m[2] + 1, Len(Before)), readme.text)
            ELSE /\ IsPrefix(Before, readme.text)
                 /\ IsSuffix(replacement(new_block) \o <<NL>>, readme.text)

\* C7: of several START...END pairs update_readme replaces the first only:
\* every later pair and its content stay as they were.
C7_FirstRegionOnly ==
    (/\ Len(hist) >= 2
     /\ ~update_readme_raises(hist[Len(hist) - 1], new_block)
     /\ search_from(Before, 1)[1] # 0
     /\ search_from(Before, search_from(Before, 1)[2] + 1)[1] # 0)
    => LET m == search_from(Before, 1)
       IN  readme.text = SubSeq(Before, 1, m[1] - 1)
                         \o expand_template(replacement(new_block))
                         \o SubSeq(Before, m[2] + 1, Len(Before))

\* C8: every key of totals, during the aggregation and in the ranking handed
\* to the renderers, has a strictly positive size.
C8_PositiveTotals ==
    /\ \A k \in 1..Len(totals) : totals[k].size > 0
    /\ \A k \in 1..Len(items) : items[k].size > 0

\* C3: the total of each language is the sum of the sizes of the edges of
\* named, unarchived, unexcluded repositories in an unexcluded language; an
\* excluded language is no key of totals, and no language is a key twice.
C3_ExclusionAbsolute ==
    /\ \A l \in Langs : SizeOf(totals, l) = expected[l]
    /\ \A k \in 1..Len(totals) : totals[k].name \notin EXCLUDE_LANGS
    /\ \A j, k \in 1..Len(totals) : totals[j].name = totals[k].name => j = k

\* the first repository was entered and all its edges iterated, and totals is
\* still empty: each of those edges is in an excluded language
C3_Witness ==
    /\ pc = "edges"
    /\ Len(served) = 1
    /\ idx = 1
    /\ n_edges >= 1
    /\ edge_idx = n_edges
    /\ totals = <<>>

AfterLoop == {"sort", "svg_light", "svg_dark", "readme", "done"}

\* what holds of the requests, the pages and the loops in every state of main
PaginationProtocol ==
    /\ Len(served) <= Len(requests)
    /\ Len(requests) <= Len(served) + 1
    /\ requests # <<>> => requests[1].cursor = NullCursor
    /\ \A k \in 2..Len(requests) :
          /\ served[k - 1].hasNextPage
          /\ requests[k].cursor = served[k - 1].endCursor
    /\ idx <= repos.nodes
    /\ edge_idx <= n_edges
    /\ (pc = "request" /\ served # <<>>) => idx = repos.nodes
    /\ pc \in AfterLoop =>
          /\ idx = repos.nodes
          /\ served # <<>>
          /\ Len(requests) = Len(served)
          /\ ~served[Len(served)].hasNextPage

\* a bound on the steps main has left, for a server of at most MaxPages pages
NodeSteps == MaxEdges + 2
PageSteps == MaxNodes * NodeSteps + 2
StepsLeft ==
    LET pages == 5 + (MaxPages - Len(requests)) * PageSteps
        nodes == (repos.nodes - idx) * NodeSteps
    IN  CASE pc = "main" -> 6 + MaxPages * PageSteps
          [] pc = "request" -> pages
          [] pc = "nodes" -> pages + nodes + 1
          [] pc = "edges" -> pages + nodes + (n_edges - edge_idx) + 2
          [] pc = "sort" -> 4
          [] pc = "svg_light" -> 3
          [] pc = "svg_dark" -> 2
          [] pc = "readme" -> 1
          [] OTHER -> 0

\* C4: the first request carries a null cursor and each later one the
\* endCursor of the page just received, which reported another page; a page
\* is iterated node by node to its last node before the next request or the
\* break; the loop is left exactly when a page reports no next page, with one
\* request made per page served; and every step of main lowers a bound on the
\* steps it has left, so the loop terminates.
C4_Pagination ==
    /\ []PaginationProtocol
    /\ [][StepsLeft' < StepsLeft /\ StepsLeft' >= 0]_vars

C4_Witness ==
    /\ pc = "sort"
    /\ Len(requests) = 2
    /\ requests[2].cursor = EndCursor(1)
    /\ totals # <<>>

\* no file has been written
NothingWritten == light = OldSvg /\ dark = OldSvg /\ hist = <<readme>>

\* C6: without GITHUB_TOKEN, or without both GITHUB_REPOSITORY_OWNER and
\* GITHUB_ACTOR, main ends in an error with no request issued and no file
\* written, and it ends so in no other configuration; with only the fallback
\* set, every request carries the fallback as its login.
C6_ConfigurationErrors ==
    /\ (\/ Falsy(environ.GITHUB_TOKEN)
        \/ (Falsy(environ.GITHUB_REPOSITORY_OWNER) /\ Falsy(environ.GITHUB_ACTOR)))
       => /\ pc \in {"main", "exit"}
          /\ requests = <<>>
          /\ NothingWritten
    /\ pc = "exit"
       => \/ Falsy(environ.GITHUB_TOKEN)
          \/ (Falsy(environ.GITHUB_REPOSITORY_OWNER) /\ Falsy(environ.GITHUB_ACTOR))
    /\ (Falsy(environ.GITHUB_REPOSITORY_OWNER) /\ ~Falsy(environ.GITHUB_ACTOR))
       => \A k \in 1..Len(requests) : requests[k].login = environ.GITHUB_ACTOR

C6_Witness ==
    /\ pc = "exit"
    /\ ~Falsy(environ.GITHUB_TOKEN)
    /\ Falsy(environ.GITHUB_REPOSITORY_OWNER)
    /\ Falsy(environ.GITHUB_ACTOR)

\* C10: a failed request ends the run with the three files as they were; a
\* file is written only after every request returned a page and the last page
\* reported no next page; README.md is patched only after both images.
C10_NoPartialOutput ==
    /\ pc = "raised" => NothingWritten
    /\ ~NothingWritten =>
          /\ served # <<>>
          /\ Len(served) = Len(requests)
          /\ ~served[Len(served)].hasNextPage
    /\ Len(hist) > 1 => (light # OldSvg /\ dark # OldSvg)

C10_Witness ==
    /\ pc = "raised"
    /\ Len(requests) = 2
    /\ Len(served) = 1
    /\ totals # <<>>

\* C5: of more than MAX_ROWS languages the table and both images show
\* exactly MAX_ROWS, the same in all three: the largest, in descending order
\* of size; total_bytes, the denominator of every share, counts every language.
C5_Truncation ==
    (pc = "done" /\ Len(totals) > MAX_ROWS) =>
        LET rows == DataRows(new_block)
        IN  /\ Len(rows) = MAX_ROWS
            /\ Len(light.rows) = MAX_ROWS
            /\ Len(dark.rows) = MAX_ROWS
            /\ \A k \in 1..MAX_ROWS :
                  /\ light.rows[k].name = rows[k].name
                  /\ dark.rows[k].name = rows[k].name
                  /\ rows[k].share = pct(SizeOf(totals, rows[k].name), sum_sizes(totals))
                  /\ light.rows[k].share = rows[k].share
                  /\ dark.rows[k].share = rows[k].share
            /\ \A j, k \in 1..MAX_ROWS : rows[j].name = rows[k].name => j = k
            /\ \A k \in 1..(MAX_ROWS - 1) :
                  SizeOf(totals, rows[k].name) >= SizeOf(totals, rows[k + 1].name)
            /\ \A n \in 1..Len(totals) :
                  \/ \E k \in 1..MAX_ROWS : rows[k].name = totals[n].name
                  \/ totals[n].size <= SizeOf(totals, rows[MAX_ROWS].name)
            /\ total_bytes = sum_sizes(totals)
            /\ readme.text = <<NL, NL>> \o replacement(new_block) \o <<NL>>

C5_Witness ==
    /\ pc = "done"
    /\ Len(totals) = MAX_ROWS + 1
    /\ totals[1].size = 1
    /\ totals[MAX_ROWS + 1].size = 2
    /\ Len(DataRows(new_block)) = MAX_ROWS

\* C9: the bar of every row is BAR_WIDTH cells wide, and its filled cells
\* are the share times BAR_WIDTH rounded to the nearest integer, none when
\* total_bytes is 0; totals {A: 60, B: 30, C: 10} give rows A, B, C with
\* 11, 5 and 2 filled cells.
C9_BarFill ==
    pc = "done" =>
        LET rows == DataRows(new_block)
        IN  /\ \A k \in 1..Len(rows) :
                  LET size == SizeOf(totals, rows[k].name)
                      filled == rows[k].bar.filled
                  IN  /\ filled + rows[k].bar.blank = BAR_WIDTH
                      /\ filled >= 0
                      /\ IF total_bytes = 0 THEN filled = 0
                         ELSE 2 * Abs(filled * total_bytes - BAR_WIDTH * size)
                                 <= total_bytes
            /\ totals = <<[name |-> "A", size |-> 60], [name |-> "B", size |-> 30],
                          [name |-> "C", size |-> 10]>>
               => /\ [k \in 1..Len(rows) |-> rows[k].name] = <<"A", "B", "C">>
                  /\ [k \in 1..Len(rows) |-> rows[k].bar.filled] = <<11, 5, 2>>

C9_Witness ==
    /\ pc = "done"
    /\ totals = <<[name |-> "A", size |-> 60], [name |-> "B", size |-> 30],
                  [name |-> "C", size |-> 10]>>
    /\ Len(DataRows(new_block)) = 3

=============================================================================
